---- MODULE Spec2Model ----
(***************************************************************************)
(* A model of sparse_matrix_op.py: the SparseMatrix class (bounded setter,  *)
(* getter, +, -, @), its text loader and its serializer.                    *)
(*                                                                          *)
(* Matrices live in a heap: mats[i] is the i-th SparseMatrix object, whose  *)
(* field `elements` is a reference into dicts, the store of Python dicts.   *)
(* A dict is the sequence of its items <<row, col, value>> in insertion     *)
(* order, as Python keeps it.  A text is a sequence of lines and a line a   *)
(* sequence of one-character strings.                                       *)
(***************************************************************************)
EXTENDS Integers, Sequences, FiniteSets, TLC

VARIABLES mats, dicts, file, last

vars == <<mats, dicts, file, last>>

\* ------------------------------------------------------------------ bounds
\* Dimensions handed to the constructor are 0..MaxDim; set_element is called
\* on every cell of a MaxDim x MaxDim matrix and on the cells just outside.
MaxDim == 2
\* Values handed to set_element are -MaxVal..MaxVal.
MaxVal == 1
\* At most MaxObjs matrices are allocated in one run, at most MaxBuilt of
\* them by the client's own constructor calls.
MaxObjs == 3
MaxBuilt == 2
\* The client constructs a matrix, calls set_element or saves only while the
\* heap holds fewer than MaxSize matrices and entries together.
MaxSize == 4

Dims == 0..MaxDim
Vals == (0 - MaxVal)..MaxVal

\* the <<row, col, value>> handed to set_element
SetArgs ==
    {<<r, c, v>> : r \in 0..(MaxDim - 1), c \in 0..(MaxDim - 1), v \in Vals}
        \cup {<<0 - 1, 0, 1>>, <<0, 0 - 1, 1>>, <<MaxDim, 0, 1>>, <<0, MaxDim, 1>>}

\* ----------------------------------------------------------------- strings
Digits == <<"0", "1", "2", "3", "4", "5", "6", "7", "8", "9">>

IsDigit(ch) == \E k \in 1..10 : Digits[k] = ch

DigitVal(ch) == (CHOOSE k \in 1..10 : Digits[k] = ch) - 1

\* str.isspace for the characters texts are made of
IsSpace(ch) == ch \in {" ", "\t"}

\* s[from:] as Python slices it (from is 0-based)
DropFirst(s, n) == IF n >= Len(s) THEN <<>> ELSE SubSeq(s, n + 1, Len(s))

StartsWith(s, p) == Len(s) >= Len(p) /\ SubSeq(s, 1, Len(p)) = p

EndsWith(s, p) == Len(s) >= Len(p) /\ SubSeq(s, Len(s) - Len(p) + 1, Len(s)) = p

Contains(s, ch) == \E k \in 1..Len(s) : s[k] = ch

NotSpace(ch) == ~IsSpace(ch)

_strip_whitespace(line) == SelectSeq(line, NotSpace)

RECURSIVE LStrip(_, _)
LStrip(s, chars) ==
    IF s # <<>> /\ Head(s) \in chars THEN LStrip(Tail(s), chars) ELSE s

RECURSIVE RStrip(_, _)
RStrip(s, chars) ==
    IF s # <<>> /\ s[Len(s)] \in chars
    THEN RStrip(SubSeq(s, 1, Len(s) - 1), chars) ELSE s

\* str.strip()
Strip(s) == RStrip(LStrip(s, {" ", "\t"}), {" ", "\t"})

\* str.isdigit(): non-empty and every character a digit
IsDigitStr(s) == s # <<>> /\ \A k \in 1..Len(s) : IsDigit(s[k])

_is_valid_integer(s) == IsDigitStr(LStrip(s, {"-"}))

\* str.split(sep): the pieces between the separators, empty pieces kept
RECURSIVE SplitFrom(_, _, _)
SplitFrom(s, sep, cur) ==
    IF s = <<>> THEN <<cur>>
    ELSE IF Head(s) = sep THEN <<cur>> \o SplitFrom(Tail(s), sep, <<>>)
    ELSE SplitFrom(Tail(s), sep, Append(cur, Head(s)))

Split(s, sep) == SplitFrom(s, sep, <<>>)

RECURSIVE DigitsVal(_, _)
DigitsVal(s, acc) ==
    IF s = <<>> THEN acc
    ELSE IF Head(s) = "_" THEN DigitsVal(Tail(s), acc)
    ELSE DigitsVal(Tail(s), 10 * acc + DigitVal(Head(s)))

\* the body of an int() literal: digits, single underscores between them
IsIntBody(s) ==
    /\ s # <<>>
    /\ IsDigit(s[1])
    /\ IsDigit(s[Len(s)])
    /\ \A k \in 1..Len(s) : IsDigit(s[k]) \/ s[k] = "_"
    /\ \A k \in 1..(Len(s) - 1) : ~(s[k] = "_" /\ s[k + 1] = "_")

\* int(s): surrounding whitespace dropped, one optional sign, then the body;
\* anything else raises ValueError
PyInt(s) ==
    LET t    == Strip(s)
        sign == t # <<>> /\ Head(t) \in {"-", "+"}
        body == IF sign THEN Tail(t) ELSE t
    IN  IF IsIntBody(body)
        THEN [ok  |-> TRUE,
              val |-> IF sign /\ Head(t) = "-"
                      THEN 0 - DigitsVal(body, 0) ELSE DigitsVal(body, 0)]
        ELSE [ok |-> FALSE, val |-> 0]

RECURSIVE NatToStr(_)
NatToStr(n) ==
    IF n < 10 THEN <<Digits[n + 1]>>
    ELSE Append(NatToStr(n \div 10), Digits[(n % 10) + 1])

\* Faulty variant of IntToStr: the sign is not written.
IntToStrUnsigned(n) == IF n < 0 THEN NatToStr(0 - n) ELSE NatToStr(n)

\* the decimal text an f-string gives an int
IntToStr(n) == IF n < 0 THEN <<"-">> \o NatToStr(0 - n) ELSE NatToStr(n)

\* ------------------------------------------------------------------- dicts
\* A store is [mats, dicts]; every operator below takes the store it reads
\* and returns the store it leaves.
Store == [mats |-> mats, dicts |-> dicts]

HasKey(d, row, col) == \E k \in 1..Len(d) : d[k][1] = row /\ d[k][2] = col

KeyPos(d, row, col) == CHOOSE k \in 1..Len(d) : d[k][1] = row /\ d[k][2] = col

\* d.get((row, col), 0)
DictGet(d, row, col) == IF HasKey(d, row, col) THEN d[KeyPos(d, row, col)][3] ELSE 0

\* d[(row, col)] = value: an existing key keeps its place, a new one goes last
DictPut(d, row, col, value) ==
    IF HasKey(d, row, col)
    THEN [d EXCEPT ![KeyPos(d, row, col)] = <<row, col, value>>]
    ELSE Append(d, <<row, col, value>>)

\* del d[(row, col)]
DictDel(d, row, col) ==
    LET p == KeyPos(d, row, col)
    IN  SubSeq(d, 1, p - 1) \o SubSeq(d, p + 1, Len(d))

\* the dict of matrix i
Elements(st, i) == st.dicts[st.mats[i].elements]

\* ---------------------------------------------------------------- matrices
\* Faulty variant of NewDict: elements is one dict, shared by every object
\* (a class attribute instead of an instance attribute).
SharedDict(st) ==
    IF st.dicts = <<>> THEN [dicts |-> <<<<>>>>, ref |-> 1]
    ELSE [dicts |-> st.dicts, ref |-> 1]

\* self.elements = {}: a dict of the object's own
NewDict(st) == [dicts |-> Append(st.dicts, <<>>), ref |-> Len(st.dicts) + 1]

\* SparseMatrix(rows=rows, cols=cols)
__init__(st, rows, cols) ==
    LET d == NewDict(st)
    IN  [st |-> [mats  |-> Append(st.mats,
                              [rows |-> rows, cols |-> cols, elements |-> d.ref]),
                 dicts |-> d.dicts],
         id |-> Len(st.mats) + 1]

InBounds(m, row, col) == 0 <= row /\ row < m.rows /\ 0 <= col /\ col < m.cols

\* Faulty variant of set_element: a zero is stored like any other value.
SetKeepZero(st, i, row, col, value) ==
    LET m == st.mats[i]
        d == st.dicts[m.elements]
    IN  IF ~(0 <= row /\ row < m.rows /\ 0 <= col /\ col < m.cols)
        THEN [err |-> "IndexError", st |-> st]
        ELSE [err |-> "none",
              st  |-> [st EXCEPT !.dicts[m.elements] = DictPut(d, row, col, value)]]

set_element(st, i, row, col, value) ==
    LET m == st.mats[i]
        d == st.dicts[m.elements]
    IN  IF ~InBounds(m, row, col) THEN [err |-> "IndexError", st |-> st]
        ELSE IF value # 0
        THEN [err |-> "none",
              st  |-> [st EXCEPT !.dicts[m.elements] = DictPut(d, row, col, value)]]
        ELSE IF HasKey(d, row, col)
        THEN [err |-> "none",
              st  |-> [st EXCEPT !.dicts[m.elements] = DictDel(d, row, col)]]
        ELSE [err |-> "none", st |-> st]

get_element(st, i, row, col) == DictGet(Elements(st, i), row, col)

\* ---------------------------------------------------------------- addition
\* for (r, c), v in self.elements.items(): result.set_element(r, c, v + other.get_element(r, c))
RECURSIVE AddSelfItems(_, _, _, _, _)
AddSelfItems(st, res, other, items, k) ==
    IF k > Len(items) THEN [err |-> "none", st |-> st]
    ELSE LET it == items[k]
             w  == set_element(st, res, it[1], it[2],
                               it[3] + get_element(st, other, it[1], it[2]))
         IN  IF w.err # "none" THEN w
             ELSE AddSelfItems(w.st, res, other, items, k + 1)

\* for (r, c), v in other.elements.items(): if (r, c) not in self.elements: result.set_element(r, c, v)
RECURSIVE AddOtherItems(_, _, _, _, _)
AddOtherItems(st, res, self, items, k) ==
    IF k > Len(items) THEN [err |-> "none", st |-> st]
    ELSE LET it == items[k]
             w  == IF ~HasKey(Elements(st, self), it[1], it[2])
                   THEN set_element(st, res, it[1], it[2], it[3])
                   ELSE [err |-> "none", st |-> st]
         IN  IF w.err # "none" THEN w
             ELSE AddOtherItems(w.st, res, self, items, k + 1)

\* Faulty variant of __add__: the entries only other holds are left out.
AddWithoutOther(st, self, other) ==
    IF st.mats[self].rows # st.mats[other].rows \/ st.mats[self].cols # st.mats[other].cols
    THEN [err |-> "ValueError", st |-> st, res |-> 0]
    ELSE LET n  == __init__(st, st.mats[self].rows, st.mats[self].cols)
             p1 == AddSelfItems(n.st, n.id, other, Elements(n.st, self), 1)
         IN  IF p1.err # "none" THEN [err |-> p1.err, st |-> p1.st, res |-> 0]
             ELSE [err |-> "none", st |-> p1.st, res |-> n.id]

__add__(st, self, other) ==
    IF st.mats[self].rows # st.mats[other].rows \/ st.mats[self].cols # st.mats[other].cols
    THEN [err |-> "ValueError", st |-> st, res |-> 0]
    ELSE LET n  == __init__(st, st.mats[self].rows, st.mats[self].cols)
             p1 == AddSelfItems(n.st, n.id, other, Elements(n.st, self), 1)
             p2 == AddOtherItems(p1.st, n.id, self, Elements(p1.st, other), 1)
         IN  IF p1.err # "none" THEN [err |-> p1.err, st |-> p1.st, res |-> 0]
             ELSE IF p2.err # "none" THEN [err |-> p2.err, st |-> p2.st, res |-> 0]
             ELSE [err |-> "none", st |-> p2.st, res |-> n.id]

\* ------------------------------------------------------------- subtraction
RECURSIVE SubSelfItems(_, _, _, _, _)
SubSelfItems(st, res, other, items, k) ==
    IF k > Len(items) THEN [err |-> "none", st |-> st]
    ELSE LET it == items[k]
             w  == set_element(st, res, it[1], it[2],
                               it[3] - get_element(st, other, it[1], it[2]))
         IN  IF w.err # "none" THEN w
             ELSE SubSelfItems(w.st, res, other, items, k + 1)

RECURSIVE SubOtherItems(_, _, _, _, _)
SubOtherItems(st, res, self, items, k) ==
    IF k > Len(items) THEN [err |-> "none", st |-> st]
    ELSE LET it == items[k]
             w  == IF ~HasKey(Elements(st, self), it[1], it[2])
                   THEN set_element(st, res, it[1], it[2], 0 - it[3])
                   ELSE [err |-> "none", st |-> st]
         IN  IF w.err # "none" THEN w
             ELSE SubOtherItems(w.st, res, self, items, k + 1)

\* Faulty variant of __sub__: the entries only other holds keep their sign.
SubKeepSign(st, self, other) ==
    IF st.mats[self].rows # st.mats[other].rows \/ st.mats[self].cols # st.mats[other].cols
    THEN [err |-> "ValueError", st |-> st, res |-> 0]
    ELSE LET n  == __init__(st, st.mats[self].rows, st.mats[self].cols)
             p1 == SubSelfItems(n.st, n.id, other, Elements(n.st, self), 1)
             p2 == AddOtherItems(p1.st, n.id, self, Elements(p1.st, other), 1)
         IN  IF p1.err # "none" THEN [err |-> p1.err, st |-> p1.st, res |-> 0]
             ELSE IF p2.err # "none" THEN [err |-> p2.err, st |-> p2.st, res |-> 0]
             ELSE [err |-> "none", st |-> p2.st, res |-> n.id]

__sub__(st, self, other) ==
    IF st.mats[self].rows # st.mats[other].rows \/ st.mats[self].cols # st.mats[other].cols
    THEN [err |-> "ValueError", st |-> st, res |-> 0]
    ELSE LET n  == __init__(st, st.mats[self].rows, st.mats[self].cols)
             p1 == SubSelfItems(n.st, n.id, other, Elements(n.st, self), 1)
             p2 == SubOtherItems(p1.st, n.id, self, Elements(p1.st, other), 1)
         IN  IF p1.err # "none" THEN [err |-> p1.err, st |-> p1.st, res |-> 0]
             ELSE IF p2.err # "none" THEN [err |-> p2.err, st |-> p2.st, res |-> 0]
             ELSE [err |-> "none", st |-> p2.st, res |-> n.id]

\* ---------------------------------------------------------- multiplication
\* Faulty variant of MulColumns: a product overwrites the cell instead of
\* being added to it.
RECURSIVE MulColumnsOverwrite(_, _, _, _, _)
MulColumnsOverwrite(st, res, other, it, c2) ==
    IF c2 >= st.mats[other].cols THEN [err |-> "none", st |-> st]
    ELSE LET v2 == get_element(st, other, it[2], c2)
             w  == IF v2 # 0
                   THEN set_element(st, res, it[1], c2, it[3] * v2)
                   ELSE [err |-> "none", st |-> st]
         IN  IF w.err # "none" THEN w
             ELSE MulColumnsOverwrite(w.st, res, other, it, c2 + 1)

\* for c2 in range(other.cols): v2 = other.get_element(c1, c2); if v2 != 0: ...
RECURSIVE MulColumns(_, _, _, _, _)
MulColumns(st, res, other, it, c2) ==
    IF c2 >= st.mats[other].cols THEN [err |-> "none", st |-> st]
    ELSE LET v2 == get_element(st, other, it[2], c2)
             w  == IF v2 # 0
                   THEN set_element(st, res, it[1], c2,
                                    get_element(st, res, it[1], c2) + it[3] * v2)
                   ELSE [err |-> "none", st |-> st]
         IN  IF w.err # "none" THEN w
             ELSE MulColumns(w.st, res, other, it, c2 + 1)

\* for (r1, c1), v1 in self.elements.items(): ...
RECURSIVE MulItems(_, _, _, _, _)
MulItems(st, res, other, items, k) ==
    IF k > Len(items) THEN [err |-> "none", st |-> st]
    ELSE LET w == MulColumns(st, res, other, items[k], 0)
         IN  IF w.err # "none" THEN w
             ELSE MulItems(w.st, res, other, items, k + 1)

\* Faulty variant of __matmul__: the shape test compares the row counts.
MulRowsTest(st, self, other) ==
    IF st.mats[self].rows # st.mats[other].rows
    THEN [err |-> "ValueError", st |-> st, res |-> 0]
    ELSE LET n == __init__(st, st.mats[self].rows, st.mats[other].cols)
             p == MulItems(n.st, n.id, other, Elements(n.st, self), 1)
         IN  IF p.err # "none" THEN [err |-> p.err, st |-> p.st, res |-> 0]
             ELSE [err |-> "none", st |-> p.st, res |-> n.id]

__matmul__(st, self, other) ==
    IF st.mats[self].cols # st.mats[other].rows
    THEN [err |-> "ValueError", st |-> st, res |-> 0]
    ELSE LET n == __init__(st, st.mats[self].rows, st.mats[other].cols)
             p == MulItems(n.st, n.id, other, Elements(n.st, self), 1)
         IN  IF p.err # "none" THEN [err |-> p.err, st |-> p.st, res |-> 0]
             ELSE [err |-> "none", st |-> p.st, res |-> n.id]

\* ------------------------------------------------------------------ loader
\* the exception a failing parse or load raises is ValueError throughout
ParseFail == [ok |-> FALSE, r |-> 0, c |-> 0, v |-> 0]

_parse_entry(line) ==
    IF ~StartsWith(line, <<"(">>) \/ ~EndsWith(line, <<")">>) THEN ParseFail
    ELSE LET parts == Split(SubSeq(line, 2, Len(line) - 1), ",")
         IN  IF Len(parts) # 3 THEN ParseFail
             ELSE LET r == Strip(parts[1])
                      c == Strip(parts[2])
                      v == Strip(parts[3])
                  IN  IF Contains(r, ".") \/ Contains(c, ".") \/ Contains(v, ".")
                      THEN ParseFail
                      ELSE IF ~(_is_valid_integer(r) /\ _is_valid_integer(c)
                                /\ _is_valid_integer(v))
                      THEN ParseFail
                      ELSE IF ~(PyInt(r).ok /\ PyInt(c).ok /\ PyInt(v).ok)
                      THEN ParseFail
                      ELSE [ok |-> TRUE, r |-> PyInt(r).val, c |-> PyInt(c).val,
                            v |-> PyInt(v).val]

\* lines = [self._strip_whitespace(line) for line in f if line.strip()]
RECURSIVE ReadLines(_)
ReadLines(text) ==
    IF text = <<>> THEN <<>>
    ELSE IF Strip(Head(text)) # <<>>
    THEN <<_strip_whitespace(Head(text))>> \o ReadLines(Tail(text))
    ELSE ReadLines(Tail(text))

\* Faulty variant of LoadEntries: the first line that fails ends the loop and
\* the entries read so far are kept.
RECURSIVE LoadEntriesPartial(_, _, _, _)
LoadEntriesPartial(st, self, lines, k) ==
    IF k > Len(lines) THEN [err |-> "none", st |-> st]
    ELSE LET e == _parse_entry(lines[k])
         IN  IF ~e.ok THEN [err |-> "none", st |-> st]
             ELSE LET w == set_element(st, self, e.r, e.c, e.v)
                  IN  IF w.err # "none" THEN [err |-> "none", st |-> st]
                      ELSE LoadEntriesPartial(w.st, self, lines, k + 1)

\* for line in lines[2:]: r, c, v = self._parse_entry(line); self.set_element(r, c, v)
RECURSIVE LoadEntries(_, _, _, _)
LoadEntries(st, self, lines, k) ==
    IF k > Len(lines) THEN [err |-> "none", st |-> st]
    ELSE LET e == _parse_entry(lines[k])
         IN  IF ~e.ok THEN [err |-> "ValueError", st |-> st]
             ELSE LET w == set_element(st, self, e.r, e.c, e.v)
                  IN  IF w.err # "none" THEN w
                      ELSE LoadEntries(w.st, self, lines, k + 1)

KwRows == <<"r", "o", "w", "s", "=">>

KwCols == <<"c", "o", "l", "s", "=">>

\* SparseMatrix(filepath=path) on a file holding text.  A failing constructor
\* hands its caller no object: the store is then the one it was called with.
_load_from_file(st, text) ==
    LET n     == __init__(st, 0, 0)
        lines == ReadLines(text)
        fail  == [err |-> "ValueError", st |-> st, res |-> 0]
    IN  IF Len(lines) < 2 THEN fail
        ELSE IF ~StartsWith(lines[1], KwRows) \/ ~StartsWith(lines[2], KwCols) THEN fail
        ELSE LET rows == PyInt(DropFirst(lines[1], 5))
                 cols == PyInt(DropFirst(lines[2], 5))
             IN  IF ~rows.ok \/ ~cols.ok THEN fail
                 ELSE LET sized == [n.st EXCEPT !.mats[n.id].rows = rows.val,
                                                !.mats[n.id].cols = cols.val]
                          p     == LoadEntries(sized, n.id, lines, 3)
                      IN  IF p.err # "none" THEN fail
                          ELSE [err |-> "none", st |-> p.st, res |-> n.id]

\* -------------------------------------------------------------- serializer
\* the order of Python's tuples ((r, c), v)
ItemLess(x, y) ==
    \/ x[1] < y[1]
    \/ x[1] = y[1] /\ x[2] < y[2]
    \/ x[1] = y[1] /\ x[2] = y[2] /\ x[3] < y[3]

RECURSIVE InsertSorted(_, _)
InsertSorted(s, x) ==
    IF s = <<>> THEN <<x>>
    ELSE IF ItemLess(x, Head(s)) THEN <<x>> \o s
    ELSE <<Head(s)>> \o InsertSorted(Tail(s), x)

\* Faulty variant of Sorted: the items stay in insertion order.
Unsorted(items) == items

\* sorted(self.elements.items())
RECURSIVE Sorted(_)
Sorted(items) ==
    IF items = <<>> THEN <<>>
    ELSE InsertSorted(Sorted(SubSeq(items, 1, Len(items) - 1)), items[Len(items)])

\* f"({r}, {c}, {v})"
EntryLine(it) ==
    <<"(">> \o IntToStr(it[1]) \o <<",", " ">> \o IntToStr(it[2])
            \o <<",", " ">> \o IntToStr(it[3]) \o <<")">>

RECURSIVE EntryLines(_)
EntryLines(items) ==
    IF items = <<>> THEN <<>>
    ELSE <<EntryLine(Head(items))>> \o EntryLines(Tail(items))

\* the lines save_to_file writes
save_to_file(st, i) ==
    <<KwRows \o IntToStr(st.mats[i].rows), KwCols \o IntToStr(st.mats[i].cols)>>
        \o EntryLines(Sorted(Elements(st, i)))

\* ------------------------------------------------------------------ inputs
\* The texts a client hands the loader: two first lines and up to MaxLines
\* further lines, each drawn from the lines below, and the texts too short
\* to hold a header.
MaxLines == 2

\* the first two lines: a header (rows=2 cols=2), negative sizes (rows=-1,
\* cols=-2), spaced, underscored and signed (rows=0_2 cols=+2), not a number,
\* empty, misordered
\* (cols= first), repeated (rows= twice), capitalised
Headers ==
    { <<<<"r", "o", "w", "s", "=", "2">>,
        <<"c", "o", "l", "s", "=", "2">>>>,
      <<<<"r", "o", "w", "s", "=", "-", "1">>,
        <<"c", "o", "l", "s", "=", "2">>>>,
      <<<<"r", "o", "w", "s", "=", "2">>,
        <<"c", "o", "l", "s", "=", "-", "2">>>>,
      <<<<"r", "o", "w", "s", " ", "=", " ", "2">>,
        <<"c", "o", "l", "s", " ", "=", " ", "2">>>>,
      <<<<"r", "o", "w", "s", "=", "0", "_", "2">>,
        <<"c", "o", "l", "s", "=", "+", "2">>>>,
      <<<<"r", "o", "w", "s", "=", "x">>,
        <<"c", "o", "l", "s", "=", "2">>>>,
      <<<<"r", "o", "w", "s", "=", "2">>,
        <<"c", "o", "l", "s", "=">>>>,
      <<<<"c", "o", "l", "s", "=", "2">>,
        <<"r", "o", "w", "s", "=", "2">>>>,
      <<<<"r", "o", "w", "s", "=", "2">>,
        <<"r", "o", "w", "s", "=", "2">>>>,
      <<<<"R", "o", "w", "s", "=", "2">>,
        <<"c", "o", "l", "s", "=", "2">>>>
    }

\* entry lines, well formed and not, and a blank line
BodyLines ==
    { <<"(", "0", ",", "0", ",", "1", ")">>,  \* (0,0,1)
      <<"(", "0", ",", " ", "1", ",", " ", "-", "1", ")">>,  \* (0, 1, -1)
      <<" ", "(", " ", "1", " ", ",", " ", "0", " ", ",", " ", "-", "1", "2", " ", ")", " ">>,  \*  ( 1 , 0 , -12 ) 
      <<"(", "1", ",", "1", ",", "0", ")">>,  \* (1,1,0)
      <<"(", "0", ",", "0", ",", "0", ")">>,  \* (0,0,0)
      <<"(", "2", ",", "0", ",", "1", ")">>,  \* (2,0,1)
      <<"(", "0", ",", "-", "1", ",", "1", ")">>,  \* (0,-1,1)
      <<"0", ",", "0", ",", "1">>,  \* 0,0,1
      <<"(", "1", ",", "0", ",", "1">>,  \* (1,0,1
      <<"(", "0", ",", "0", ")">>,  \* (0,0)
      <<"(", "0", ",", "0", ",", "1", ",", "1", ")">>,  \* (0,0,1,1)
      <<"(", "0", ",", "0", ",", "1", ".", "5", ")">>,  \* (0,0,1.5)
      <<"(", "0", ".", "0", ",", "0", ",", "1", ")">>,  \* (0.0,0,1)
      <<"(", "0", ",", "0", ",", "-", "-", "1", ")">>,  \* (0,0,--1)
      <<"(", "0", ",", "0", ",", "+", "1", ")">>,  \* (0,0,+1)
      <<"(", "0", ",", ",", "1", ")">>,  \* (0,,1)
      <<" ", " ">>  \* (blank)
    }

RECURSIVE SeqsUpTo(_, _)
SeqsUpTo(S, n) ==
    IF n = 0 THEN {<<>>}
    ELSE LET shorter == SeqsUpTo(S, n - 1)
         IN  shorter \cup {Append(t, x) : t \in {u \in shorter : Len(u) = n - 1}, x \in S}

ExternalTexts ==
    {<<>>} \cup {<<h[1]>> : h \in Headers}
           \cup {h \o body : h \in Headers, body \in SeqsUpTo(BodyLines, MaxLines)}

\* ------------------------------------------------------------------- state
\* last: the call made last, its arguments and what it gave back.
\*   op in init, new, set, add, sub, matmul, save, load; a, b the matrices it
\*   was called on (0: none); args the integers handed to it (of a set, only
\*   when it returned); text the text
\*   read; res the matrix returned (0: none); err the exception raised.
\* file: <<>> while no file is written, else <<[text, rows, cols, entries]>>,
\*   the text save_to_file wrote and the matrix it was called on, entries
\*   being the set of its items.
Call(op, a, b, args, text, res, err) ==
    [op |-> op, a |-> a, b |-> b, args |-> args, text |-> text, res |-> res, err |-> err]

ItemSet(d) == {d[k] : k \in 1..Len(d)}

Init ==
    /\ mats = <<>>
    /\ dicts = <<>>
    /\ file = <<>>
    /\ last = Call("init", 0, 0, <<>>, <<>>, 0, "none")

Objs == 1..Len(mats)

RECURSIVE SumLen(_)
SumLen(ds) == IF ds = <<>> THEN 0 ELSE Len(Head(ds)) + SumLen(Tail(ds))

\* the matrices and the entries the heap holds
HeapSize == Len(mats) + SumLen(dicts)

\* m = SparseMatrix(rows=rows, cols=cols)
Create(rows, cols) ==
    /\ LET n == __init__(Store, rows, cols)
       IN  /\ mats' = n.st.mats
           /\ dicts' = n.st.dicts
           /\ last' = Call("new", 0, 0, <<rows, cols>>, <<>>, n.id, "none")
    /\ UNCHANGED file

\* m.set_element(row, col, value)
SetElement(i, row, col, value) ==
    /\ LET w == set_element(Store, i, row, col, value)
       IN  /\ mats' = w.st.mats
           /\ dicts' = w.st.dicts
           /\ last' = Call("set", i, 0,
                           IF w.err = "none" THEN <<row, col, value>> ELSE <<>>,
                           <<>>, 0, w.err)
    /\ UNCHANGED file

\* a + b
Add(i, j) ==
    /\ LET r == __add__(Store, i, j)
       IN  /\ mats' = r.st.mats
           /\ dicts' = r.st.dicts
           /\ last' = Call("add", i, j, <<>>, <<>>, r.res, r.err)
    /\ UNCHANGED file

\* a - b
Sub(i, j) ==
    /\ LET r == __sub__(Store, i, j)
       IN  /\ mats' = r.st.mats
           /\ dicts' = r.st.dicts
           /\ last' = Call("sub", i, j, <<>>, <<>>, r.res, r.err)
    /\ UNCHANGED file

\* a @ b
MatMul(i, j) ==
    /\ LET r == __matmul__(Store, i, j)
       IN  /\ mats' = r.st.mats
           /\ dicts' = r.st.dicts
           /\ last' = Call("matmul", i, j, <<>>, <<>>, r.res, r.err)
    /\ UNCHANGED file

\* m.save_to_file(path)
Save(i) ==
    /\ file' = <<[text    |-> save_to_file(Store, i),
                  rows    |-> mats[i].rows,
                  cols    |-> mats[i].cols,
                  entries |-> ItemSet(Elements(Store, i))]>>
    /\ last' = Call("save", i, 0, <<>>, <<>>, 0, "none")
    /\ UNCHANGED <<mats, dicts>>

\* SparseMatrix(filepath=path) on the file save_to_file wrote
LoadSaved ==
    /\ file # <<>>
    /\ LET r == _load_from_file(Store, file[1].text)
       IN  /\ mats' = r.st.mats
           /\ dicts' = r.st.dicts
           /\ last' = Call("load", 0, 0, <<>>, file[1].text, r.res, r.err)
    /\ UNCHANGED file

\* SparseMatrix(filepath=path) on a text of the client's, the first call of a run
LoadExternal(text) ==
    /\ LET r == _load_from_file(Store, text)
       IN  /\ mats' = r.st.mats
           /\ dicts' = r.st.dicts
           /\ last' = Call("load", 0, 0, <<>>, text, r.res, r.err)
    /\ UNCHANGED file

\* The client of one run.  It builds matrices (constructor, set_element)
\* and does arithmetic on them while nothing is saved, within the bounds; it
\* loads a text of its own only as its first call; once it has saved, it
\* only saves and loads.
CanBuild == file = <<>> /\ HeapSize < MaxSize

CanCompute == file = <<>> /\ Len(mats) < MaxObjs

CanSave == Len(mats) < MaxObjs /\ HeapSize < MaxSize

Next ==
    \/ CanBuild /\ Len(mats) < MaxBuilt
          /\ \E rows \in Dims, cols \in Dims : Create(rows, cols)
    \/ CanBuild
          /\ \E i \in Objs, arg \in SetArgs : SetElement(i, arg[1], arg[2], arg[3])
    \/ CanCompute /\ \E i \in Objs, j \in Objs : Add(i, j)
    \/ CanCompute /\ \E i \in Objs, j \in Objs : Sub(i, j)
    \/ CanCompute /\ \E i \in Objs, j \in Objs : MatMul(i, j)
    \/ CanSave /\ \E i \in Objs : Save(i)
    \/ Len(mats) < MaxObjs /\ LoadSaved
    \/ last.op = "init" /\ \E text \in ExternalTexts : LoadExternal(text)

Spec == Init /\ [][Next]_vars

\* ------------------------------------------------------- reading a matrix
SameShape(i, j) == mats[i].rows = mats[j].rows /\ mats[i].cols = mats[j].cols

\* the cells 0 <= r < rows, 0 <= c < cols of matrix i
Cells(i) == (0..(mats[i].rows - 1)) \X (0..(mats[i].cols - 1))

Get(i, r, c) == get_element(Store, i, r, c)

Has(i, r, c) == HasKey(Elements(Store, i), r, c)

\* every key of matrix i is one of its cells
KeysInCells(i) ==
    \A k \in 1..Len(Elements(Store, i)) :
        <<Elements(Store, i)[k][1], Elements(Store, i)[k][2]>> \in Cells(i)

ArithmeticOps == {"add", "sub", "matmul"}

\* ---------------------------------------------------------------- addition
\* C1: when A and B have the same shape, A + B returns a matrix of that shape
\* whose value at every cell is A.get + B.get, and a cell whose sum is 0 is
\* not a key of the result.
AddIsCellwiseSum ==
    (last.op = "add" /\ SameShape(last.a, last.b)) =>
        /\ last.err = "none"
        /\ last.res \in Objs
        /\ SameShape(last.res, last.a)
        /\ KeysInCells(last.res)
        /\ \A rc \in Cells(last.a) :
              LET sum == Get(last.a, rc[1], rc[2]) + Get(last.b, rc[1], rc[2])
              IN  /\ Get(last.res, rc[1], rc[2]) = sum
                  /\ (sum = 0 => ~Has(last.res, rc[1], rc[2]))

\* an addition of two matrices in which an entry of one cancels an entry of
\* the other
AddCancels ==
    /\ last.op = "add"
    /\ last.err = "none"
    /\ last.a # last.b
    /\ \E rc \in Cells(last.a) :
          /\ Has(last.a, rc[1], rc[2])
          /\ Has(last.b, rc[1], rc[2])
          /\ Get(last.a, rc[1], rc[2]) + Get(last.b, rc[1], rc[2]) = 0
          /\ ~Has(last.res, rc[1], rc[2])

\* ---------------------------------------------------------- multiplication
\* the sum over k in [0, n) of A.get(r, k) * B.get(k, c)
RECURSIVE DotUpTo(_, _, _, _, _)
DotUpTo(i, j, r, c, n) ==
    IF n <= 0 THEN 0
    ELSE DotUpTo(i, j, r, c, n - 1) + Get(i, r, n - 1) * Get(j, n - 1, c)

IsIdentity(i) ==
    /\ mats[i].rows = mats[i].cols
    /\ \A rc \in Cells(i) : Get(i, rc[1], rc[2]) = IF rc[1] = rc[2] THEN 1 ELSE 0

\* C2: when A.cols = B.rows, A @ B returns an A.rows x B.cols matrix whose
\* value at every cell (r, c) is the sum over k of A.get(r, k) * B.get(k, c);
\* a cell whose sum is 0 is not a key of the result; A @ I has the entries of A.
MatMulIsRowByColumn ==
    (last.op = "matmul" /\ mats[last.a].cols = mats[last.b].rows) =>
        /\ last.err = "none"
        /\ last.res \in Objs
        /\ mats[last.res].rows = mats[last.a].rows
        /\ mats[last.res].cols = mats[last.b].cols
        /\ KeysInCells(last.res)
        /\ \A rc \in Cells(last.res) :
              LET dot == DotUpTo(last.a, last.b, rc[1], rc[2], mats[last.a].cols)
              IN  /\ Get(last.res, rc[1], rc[2]) = dot
                  /\ (dot = 0 => ~Has(last.res, rc[1], rc[2]))
        /\ (IsIdentity(last.b) =>
               ItemSet(Elements(Store, last.res)) = ItemSet(Elements(Store, last.a)))

\* a product in which two non-zero terms of one cell cancel: the cell is
\* written by the first and removed by the second
MatMulCancels ==
    /\ last.op = "matmul"
    /\ last.err = "none"
    /\ \E rc \in Cells(last.res) :
          /\ \E k1, k2 \in 0..(mats[last.a].cols - 1) :
                /\ k1 # k2
                /\ Get(last.a, rc[1], k1) * Get(last.b, k1, rc[2]) # 0
                /\ Get(last.a, rc[1], k2) * Get(last.b, k2, rc[2]) # 0
          /\ DotUpTo(last.a, last.b, rc[1], rc[2], mats[last.a].cols) = 0
          /\ ~Has(last.res, rc[1], rc[2])

\* ------------------------------------------------------------- subtraction
\* C3: when A and B have the same shape, A - B returns a matrix of that shape
\* whose value at every cell is A.get - B.get (a cell only B holds gives -v),
\* a cell whose difference is 0 is not a key of the result, and M - M has no
\* entries.
SubIsCellwiseDifference ==
    (last.op = "sub" /\ SameShape(last.a, last.b)) =>
        /\ last.err = "none"
        /\ last.res \in Objs
        /\ SameShape(last.res, last.a)
        /\ KeysInCells(last.res)
        /\ \A rc \in Cells(last.a) :
              LET diff == Get(last.a, rc[1], rc[2]) - Get(last.b, rc[1], rc[2])
              IN  /\ Get(last.res, rc[1], rc[2]) = diff
                  /\ (diff = 0 => ~Has(last.res, rc[1], rc[2]))
        /\ (last.a = last.b => Elements(Store, last.res) = <<>>)

\* a subtraction from a matrix with entries of a matrix holding a cell the
\* first does not hold
SubNegatesOtherOnly ==
    /\ last.op = "sub"
    /\ last.err = "none"
    /\ Elements(Store, last.a) # <<>>
    /\ \E rc \in Cells(last.a) :
          /\ ~Has(last.a, rc[1], rc[2])
          /\ Has(last.b, rc[1], rc[2])
          /\ Get(last.res, rc[1], rc[2]) = 0 - Get(last.b, rc[1], rc[2])

\* -------------------------------------------------------------- invariants
\* C4: no matrix, however it was made (constructor and set_element calls that
\* return or raise, loader, +, -, @), stores a zero or a key outside its
\* declared dimensions, and after set_element(r, c, 0) the key (r, c) is absent.
StoredEntriesValid ==
    /\ \A i \in Objs :
          \A k \in 1..Len(Elements(Store, i)) :
              LET it == Elements(Store, i)[k]
              IN  /\ it[3] # 0
                  /\ 0 <= it[1] /\ it[1] < mats[i].rows
                  /\ 0 <= it[2] /\ it[2] < mats[i].cols
    /\ (last.op = "set" /\ last.err = "none" /\ last.args[3] = 0) =>
          /\ ~Has(last.a, last.args[1], last.args[2])
          /\ Get(last.a, last.args[1], last.args[2]) = 0

\* a zero was written to a matrix that holds entries
ZeroWriteLeavesNoKey ==
    /\ last.op = "set"
    /\ last.err = "none"
    /\ last.args[3] = 0
    /\ Elements(Store, last.a) # <<>>
    /\ ~Has(last.a, last.args[1], last.args[2])

\* --------------------------------------------------------------- the files
\* the lines of the text the last load read, as the loader splits them
LinesRead == ReadLines(last.text)

\* the first two lines are rows=<integer> and cols=<integer>
HeaderParses ==
    /\ Len(LinesRead) >= 2
    /\ StartsWith(LinesRead[1], KwRows)
    /\ StartsWith(LinesRead[2], KwCols)
    /\ PyInt(DropFirst(LinesRead[1], 5)).ok
    /\ PyInt(DropFirst(LinesRead[2], 5)).ok

DeclaredRows == PyInt(DropFirst(LinesRead[1], 5)).val

DeclaredCols == PyInt(DropFirst(LinesRead[2], 5)).val

\* C5: a matrix with non-negative dimensions that is saved and then loaded
\* from the text written comes back with the same rows, cols and entries.
RoundTrip ==
    (/\ last.op = "load"
     /\ file # <<>>
     /\ last.text = file[1].text
     /\ file[1].rows >= 0
     /\ file[1].cols >= 0) =>
        /\ last.err = "none"
        /\ last.res \in Objs
        /\ mats[last.res].rows = file[1].rows
        /\ mats[last.res].cols = file[1].cols
        /\ ItemSet(Elements(Store, last.res)) = file[1].entries
        /\ Len(Elements(Store, last.res)) = Cardinality(file[1].entries)

\* a matrix holding several entries, one of them negative with two digits,
\* was saved and loaded again
RoundTripOfNegatives ==
    /\ last.op = "load"
    /\ last.err = "none"
    /\ file # <<>>
    /\ last.text = file[1].text
    /\ Cardinality(file[1].entries) >= 2
    /\ <<1, 0, 0 - 12>> \in file[1].entries

\* a minus sign followed by one or more decimal digits
NegativeNumeral(s) == Len(s) >= 2 /\ s[1] = "-" /\ IsDigitStr(Tail(s))

\* C6: a text whose rows= or cols= line carries a negative numeral is
\* rejected by the loader, with or without entry lines, so that no loaded
\* matrix has a negative rows or cols.
NegativeHeaderRejected ==
    /\ (/\ last.op = "load"
        /\ Len(LinesRead) >= 2
        /\ StartsWith(LinesRead[1], KwRows)
        /\ StartsWith(LinesRead[2], KwCols)
        /\ \/ NegativeNumeral(DropFirst(LinesRead[1], 5))
           \/ NegativeNumeral(DropFirst(LinesRead[2], 5))) =>
            (last.err = "ValueError" /\ last.res = 0)
    /\ (last.op = "load" /\ last.err = "none") =>
            (mats[last.res].rows >= 0 /\ mats[last.res].cols >= 0)

\* an optional minus sign followed by one or more decimal digits
SignedDigits(f) ==
    IF f # <<>> /\ f[1] = "-" THEN IsDigitStr(Tail(f)) ELSE IsDigitStr(f)

\* the entry line fails: it is not parenthesized, has not exactly three
\* fields, has a field that is no integer or holds a '.', or names a cell
\* outside rows x cols
LineFails(line, rows, cols) ==
    IF ~(StartsWith(line, <<"(">>) /\ EndsWith(line, <<")">>)) THEN TRUE
    ELSE LET fields == Split(SubSeq(line, 2, Len(line) - 1), ",")
         IN  IF Len(fields) # 3 THEN TRUE
             ELSE IF \E k \in 1..3 : ~SignedDigits(fields[k]) \/ Contains(fields[k], ".")
             THEN TRUE
             ELSE LET r == PyInt(fields[1]).val
                      c == PyInt(fields[2]).val
                  IN  ~(0 <= r /\ r < rows /\ 0 <= c /\ c < cols)

SomeLineFails ==
    \E k \in 3..Len(LinesRead) : LineFails(LinesRead[k], DeclaredRows, DeclaredCols)

\* C7: with a header that parses, one failing entry line makes the whole load
\* raise and return no matrix, whatever the lines before it inserted; a
\* matrix is returned only when every entry line parses and is in bounds.
FailingLineFailsLoad ==
    (last.op = "load" /\ HeaderParses) =>
        /\ SomeLineFails =>
              /\ last.err = "ValueError"
              /\ last.res = 0
              /\ (file = <<>> => (mats = <<>> /\ dicts = <<>>))
        /\ ~SomeLineFails => (last.err = "none" /\ last.res \in Objs)

\* a load that inserted the first entry line's non-zero value and failed on
\* the second
PartialLoadDiscarded ==
    /\ last.op = "load"
    /\ HeaderParses
    /\ Len(LinesRead) = 4
    /\ ~LineFails(LinesRead[3], DeclaredRows, DeclaredCols)
    /\ _parse_entry(LinesRead[3]).v # 0
    /\ LineFails(LinesRead[4], DeclaredRows, DeclaredCols)
    /\ last.err = "ValueError"
    /\ mats = <<>>

\* ------------------------------------------------------------------ errors
\* C8: + and - raise ValueError exactly when the shapes differ, @ exactly
\* when A.cols differs from B.rows; otherwise they return a matrix and raise
\* nothing, no IndexError either.
ShapeErrorsExactly ==
    /\ last.op \in {"add", "sub"} =>
          /\ last.err = "ValueError" <=> ~SameShape(last.a, last.b)
          /\ SameShape(last.a, last.b) => (last.err = "none" /\ last.res \in Objs)
    /\ last.op = "matmul" =>
          /\ last.err = "ValueError" <=> mats[last.a].cols # mats[last.b].rows
          /\ mats[last.a].cols = mats[last.b].rows =>
                (last.err = "none" /\ last.res \in Objs)

\* a product of two matrices with as many rows each, the first with another
\* number of columns, was refused
MismatchedProductRejected ==
    /\ last.op = "matmul"
    /\ last.err = "ValueError"
    /\ mats[last.a].rows = mats[last.b].rows
    /\ mats[last.a].cols # mats[last.b].rows

\* -------------------------------------------------------------- serializer
\* the key of entry line k of the text written is below that of line k + 1
KeyAscends(text, k) ==
    LET x == _parse_entry(text[k])
        y == _parse_entry(text[k + 1])
    IN  x.r < y.r \/ (x.r = y.r /\ x.c < y.c)

\* C9: the text written is rows=<rows>, cols=<cols>, then one line per stored
\* entry, strictly ascending by (row, col) whatever the insertion order, and
\* no line holds the value 0.
SavedTextSorted ==
    last.op = "save" =>
        LET text == file[1].text
            d    == Elements(Store, last.a)
        IN  /\ Len(text) = 2 + Len(d)
            /\ text[1] = KwRows \o IntToStr(mats[last.a].rows)
            /\ text[2] = KwCols \o IntToStr(mats[last.a].cols)
            /\ \A k \in 3..Len(text) :
                  LET e == _parse_entry(text[k])
                  IN  /\ e.ok
                      /\ e.v # 0
                      /\ HasKey(d, e.r, e.c)
                      /\ DictGet(d, e.r, e.c) = e.v
            /\ \A k \in 3..(Len(text) - 1) : KeyAscends(text, k)

\* a matrix whose entries were inserted in descending order of key was saved
SavedOutOfInsertionOrder ==
    /\ last.op = "save"
    /\ Len(Elements(Store, last.a)) >= 2
    /\ ItemLess(Elements(Store, last.a)[2], Elements(Store, last.a)[1])

\* ------------------------------------------------------------------- frame
\* matrix i and its entries are in the next state what they are in this one
Kept(i) ==
    /\ i <= Len(mats')
    /\ mats'[i] = mats[i]
    /\ dicts'[mats'[i].elements] = dicts[mats[i].elements]

\* C10: +, - and @ leave every matrix there was, the operands among them, as
\* it was, whether they return or raise; the matrix they return is a new
\* object whose dict is no other matrix's, so that a set_element on it changes
\* no other matrix; the two operands may be one matrix.
OperandsKept ==
    [][/\ last'.op \in ArithmeticOps =>
             /\ \A i \in Objs : Kept(i)
             /\ last'.err # "none" => Len(mats') = Len(mats)
             /\ last'.err = "none" =>
                   /\ Len(mats') = Len(mats) + 1
                   /\ last'.res = Len(mats) + 1
                   /\ \A i \in Objs : mats'[last'.res].elements # mats'[i].elements
       /\ last'.op = "set" => \A i \in Objs \ {last'.a} : Kept(i)
      ]_vars

\* an operation was applied to one matrix holding entries as both operands,
\* and returned a matrix with other entries
SameOperandTwice ==
    /\ last.op \in ArithmeticOps
    /\ last.err = "none"
    /\ last.a = last.b
    /\ Elements(Store, last.a) # <<>>
    /\ Elements(Store, last.res) # Elements(Store, last.a)
    /\ mats[last.res].elements # mats[last.a].elements

====
